---- MODULE Spec2Model ----
(***************************************************************************)
(* Vendor sales summary pipeline (scripts/vendor_sales_summary_ingest.py)  *)
(* and raw CSV ingestion (scripts/ingest.py) over one MySQL database.      *)
(*                                                                         *)
(* A relation is a record [present, columns, rows]; rows is the sequence   *)
(* of its rows, each a record keyed by column name.  Text cells are        *)
(* sequences of Unicode code points, so that str.strip and the float cast  *)
(* of Volume are computed and not assumed: a text cell is Str(text).  The  *)
(* keys, prices and quantities of the base relations are integers and are  *)
(* never NULL.  Dollars is a float of either sign; it and the text cells   *)
(* VendorName, Description and Volume may be NULL, as may the columns the  *)
(* LEFT JOINs leave unmatched and the stored cells of a nan.  NULL is the  *)
(* cell NaN: pandas reads it as None or nan, and isna, fillna and the .str *)
(* methods treat the two alike.  Floats are exact rationals plus inf, -inf *)
(* and nan; float(text) keeps the range of a double (overflow to inf,      *)
(* underflow to 0), rounding to 53 bits is not modelled.  Column names are *)
(* texts, which MySQL compares without regard to case.                     *)
(*                                                                         *)
(* to_sql(if_exists='replace') is the statements DROP TABLE, CREATE TABLE  *)
(* and INSERT; MySQL commits each DDL statement as it runs, so every       *)
(* statement is a step of its own and what it did stays when a later one   *)
(* fails.  The server is reachable or not for the whole of a behaviour.    *)
(***************************************************************************)
EXTENDS Integers, Sequences, FiniteSets, TLC

VARIABLES env, server_up, files, db, raw_script, raw_pc, raw_todo, raw_file,
          pc, df, err, attempts, before

vars == <<env, server_up, files, db, raw_script, raw_pc, raw_todo, raw_file,
          pc, df, err, attempts, before>>

(***************************************************************************)
(* Bound of the checked instances: the rows of the four base relations      *)
(* together.                                                               *)
(***************************************************************************)
MaxRows == 4

(***************************************************************************)
(* Floats                                                                  *)
(***************************************************************************)
Abs(n) == IF n < 0 THEN -n ELSE n

RECURSIVE GCD(_, _)
GCD(a, b) == IF b = 0 THEN a ELSE GCD(b, a % b)

\* The finite float n/d (d # 0), in lowest terms with a positive denominator.
Fin(n, d) ==
    LET g == GCD(Abs(n), Abs(d))
        s == IF d < 0 THEN -1 ELSE 1
    IN  [kind |-> "finite", num |-> s * (n \div g), den |-> s * (d \div g)]

F(n) == [kind |-> "finite", num |-> n, den |-> 1]

NaN == [kind |-> "nan", num |-> 0, den |-> 0]

Inf == [kind |-> "inf", num |-> 0, den |-> 0]

NegInf == [kind |-> "-inf", num |-> 0, den |-> 0]

IsFinite(x) == x.kind = "finite"

\* x + y, for the operands SUM meets (no inf + -inf).
FAdd(x, y) ==
    IF x.kind = "nan" \/ y.kind = "nan" THEN NaN
    ELSE IF IsFinite(x) /\ IsFinite(y)
         THEN Fin(x.num * y.den + y.num * x.den, x.den * y.den)
    ELSE IF ~IsFinite(x) THEN x ELSE y

\* x <= y; false when either is nan.
FLeq(x, y) ==
    IF x.kind = "nan" \/ y.kind = "nan" THEN FALSE
    ELSE IF x.kind = "-inf" \/ y.kind = "inf" THEN TRUE
    ELSE IF x.kind = "inf" \/ y.kind = "-inf" THEN FALSE
    ELSE x.num * y.den <= y.num * x.den

\* x < y; false when either is nan.
FLess(x, y) == FLeq(x, y) /\ x # y

\* x - y, for the operands the pipeline produces (no inf - inf).
FSub(x, y) ==
    IF x.kind = "nan" \/ y.kind = "nan" THEN NaN
    ELSE IF IsFinite(x) /\ IsFinite(y)
         THEN Fin(x.num * y.den - y.num * x.den, x.den * y.den)
    ELSE IF ~IsFinite(x) THEN x
    ELSE IF y.kind = "inf" THEN NegInf ELSE Inf

\* x * y for a finite y > 0 (the literal 100 of ProfitMargin).
FMul(x, y) ==
    IF x.kind = "nan" \/ y.kind = "nan" THEN NaN
    ELSE IF IsFinite(x) /\ IsFinite(y) THEN Fin(x.num * y.num, x.den * y.den)
    ELSE x

\* Variant of FDiv: a zero denominator coerced to a zero quotient.
FDivGuarded(x, y) ==
    IF x.kind = "nan" \/ y.kind = "nan" THEN NaN
    ELSE IF IsFinite(y) /\ y.num = 0 THEN F(0)
    ELSE IF IsFinite(x) /\ IsFinite(y) THEN Fin(x.num * y.den, x.den * y.num)
    ELSE x

\* x / y as numpy float64 divides: no exception, x/0 is +-inf and 0/0 is nan.
FDiv(x, y) ==
    IF x.kind = "nan" \/ y.kind = "nan" THEN NaN
    ELSE IF IsFinite(y) /\ y.num = 0
         THEN IF ~IsFinite(x) THEN x
              ELSE IF x.num = 0 THEN NaN
              ELSE IF x.num > 0 THEN Inf ELSE NegInf
    ELSE IF IsFinite(x) /\ IsFinite(y) THEN Fin(x.num * y.den, x.den * y.num)
    ELSE x

(***************************************************************************)
(* Text                                                                    *)
(***************************************************************************)
\* The code points str.isspace() holds for: TAB LF VT FF CR, FS GS RS US,
\* SPACE, NEL, NBSP, OGHAM SPACE MARK, EN QUAD .. HAIR SPACE, LINE and
\* PARAGRAPH SEPARATOR, NARROW NBSP, MEDIUM MATHEMATICAL SPACE and
\* IDEOGRAPHIC SPACE.
Whitespace ==
    (9..13) \cup (28..32) \cup {133, 160, 5760} \cup (8192..8202)
        \cup {8232, 8233, 8239, 8287, 12288}

IsSpace(c) == c \in Whitespace

RECURSIVE LStrip(_)
LStrip(s) == IF s # <<>> /\ IsSpace(Head(s)) THEN LStrip(Tail(s)) ELSE s

RECURSIVE RStrip(_)
RStrip(s) ==
    IF s # <<>> /\ IsSpace(s[Len(s)]) THEN RStrip(SubSeq(s, 1, Len(s) - 1)) ELSE s

\* str.strip() with no argument: leading and trailing whitespace removed.
StrStrip(s) == RStrip(LStrip(s))

\* A cell holding the text s.
Str(s) == [kind |-> "str", text |-> s]

IsStr(x) == x.kind = "str"

\* Series.str.strip() of one cell: the text stripped; a cell that is no text
\* (a number, None, nan) gives nan.
StripCell(x) == IF IsStr(x) THEN Str(StrStrip(x.text)) ELSE NaN

(***************************************************************************)
(* astype('float') of a text column: float(text) of every cell.  The value  *)
(* is exact within the range of a double: a literal that rounds to 2^1024  *)
(* or more is inf, one that rounds to less than half the least subnormal   *)
(* is 0.  Rounding to 53 bits is not modelled.                             *)
(***************************************************************************)
\* What float() gives for a text that is no float literal: ValueError.
FloatError == [kind |-> "error", num |-> 0, den |-> 0]

\* The code point of the digit zero of every block of Unicode decimal digits
\* (Unicode 14); the digits 0 .. 9 of a block follow one another.
DecimalZeros ==
    {48, 1632, 1776, 1984, 2406, 2534, 2662, 2790, 2918, 3046, 3174, 3302, 3430,
     3558, 3664, 3792, 3872, 4160, 4240, 6112, 6160, 6470, 6608, 6784, 6800, 6992,
     7088, 7232, 7248, 42528, 43216, 43264, 43472, 43504, 43600, 44016, 65296,
     66720, 68912, 69734, 69872, 69942, 70096, 70384, 70736, 70864, 71248, 71360,
     71472, 71904, 72016, 72784, 73040, 73120, 92768, 92864, 93008, 120782,
     120792, 120802, 120812, 120822, 123200, 123632, 125264, 130032}

IsDecimal(c) == \E z \in DecimalZeros : c \in z..(z + 9)

DecimalValue(c) == c - (CHOOSE z \in DecimalZeros : c \in z..(z + 9))

\* float() first turns the text into ASCII: a code point below 127 stays, any
\* other is a blank when it is whitespace, the ASCII digit of its value when
\* it is a decimal digit, and "?" otherwise.
ToAscii(c) ==
    IF c < 127 THEN c
    ELSE IF IsSpace(c) THEN 32
    ELSE IF IsDecimal(c) THEN 48 + DecimalValue(c)
    ELSE 63

AsciiText(s) == [i \in DOMAIN s |-> ToAscii(s[i])]

\* The ASCII whitespace float() strips from both ends: TAB LF VT FF CR SPACE.
IsAsciiSpace(c) == c \in (9..13) \cup {32}

RECURSIVE LStripAscii(_)
LStripAscii(s) == IF s # <<>> /\ IsAsciiSpace(Head(s)) THEN LStripAscii(Tail(s)) ELSE s

RECURSIVE RStripAscii(_)
RStripAscii(s) ==
    IF s # <<>> /\ IsAsciiSpace(s[Len(s)]) THEN RStripAscii(SubSeq(s, 1, Len(s) - 1))
    ELSE s

IsDigit(c) == c \in 48..57

\* The value of a digit "0" .. "9" (code points 48 .. 57).
DigitValue(c) == c - 48

\* An underscore is allowed only between two digits.
UnderscoresValid(s) ==
    \A i \in DOMAIN s :
        s[i] = 95 => /\ i > 1 /\ IsDigit(s[i - 1])
                     /\ i < Len(s) /\ IsDigit(s[i + 1])

NotUnderscore(c) == c # 95

\* An upper-case ASCII letter to lower case.
Lower(c) == IF c \in 65..90 THEN c + 32 ELSE c

LowerText(s) == [i \in DOMAIN s |-> Lower(s[i])]

\* "inf", "infinity" and "nan", in any case.
InfTexts == {<<105, 110, 102>>, <<105, 110, 102, 105, 110, 105, 116, 121>>}

NanText == <<110, 97, 110>>

\* The number of digits the text starts with.
LeadingDigits(s) ==
    IF \A i \in DOMAIN s : IsDigit(s[i]) THEN Len(s)
    ELSE (CHOOSE i \in DOMAIN s : ~IsDigit(s[i]) /\ \A j \in 1..(i - 1) : IsDigit(s[j])) - 1

RECURSIVE ParseDigits(_, _)
ParseDigits(s, acc) ==
    IF s = <<>> THEN acc ELSE ParseDigits(Tail(s), 10 * acc + DigitValue(Head(s)))

RECURSIVE Pow10(_)
Pow10(n) == IF n = 0 THEN 1 ELSE 10 * Pow10(n - 1)

Drop(s, n) == SubSeq(s, n + 1, Len(s))

IsSign(c) == c \in {43, 45}

IsZeroDigit(c) == c = 48

\* The number of "0" the digits start with.
LeadingZeros(s) ==
    IF \A i \in DOMAIN s : IsZeroDigit(s[i]) THEN Len(s)
    ELSE (CHOOSE i \in DOMAIN s :
              ~IsZeroDigit(s[i]) /\ \A j \in 1..(i - 1) : IsZeroDigit(s[j])) - 1

\* The number of "0" the digits end with.
TrailingZeros(s) ==
    IF \A i \in DOMAIN s : IsZeroDigit(s[i]) THEN Len(s)
    ELSE Len(s) - (CHOOSE i \in DOMAIN s :
                       ~IsZeroDigit(s[i]) /\ \A j \in (i + 1)..Len(s) : IsZeroDigit(s[j]))

\* The significant digits of a run of digits: its values without the leading
\* and the trailing zeros.
Significant(s) ==
    LET t == SubSeq(s, LeadingZeros(s) + 1, Len(s) - TrailingZeros(s))
    IN  [i \in DOMAIN t |-> DigitValue(t[i])]

\* Digit i of the fraction 0.d, which goes on in zeros.
FractionDigit(d, i) == IF i <= Len(d) THEN d[i] ELSE 0

\* 0.a <= 0.b for digit sequences a and b: the two agree, or a has the
\* lesser digit where they first differ.
DigitsLeq(a, b) ==
    LET n == IF Len(a) > Len(b) THEN Len(a) ELSE Len(b)
        differ == {i \in 1..n : FractionDigit(a, i) # FractionDigit(b, i)}
    IN  \/ differ = {}
        \/ \E i \in differ :
              /\ \A j \in differ : i <= j
              /\ FractionDigit(a, i) < FractionDigit(b, i)

RECURSIVE DigitsNumber(_, _)
DigitsNumber(d, acc) ==
    IF d = <<>> THEN acc ELSE DigitsNumber(Tail(d), 10 * acc + Head(d))

\* The 309 digits of 2^1024 - 2^970, half way between the largest double and
\* 2^1024: a literal of that value or more rounds to inf.
OverflowDigits ==
    <<1, 7, 9, 7, 6, 9, 3, 1, 3, 4, 8, 6, 2, 3, 1, 5, 8, 0, 7, 9, 3, 7, 2, 8, 9,
     7, 1, 4, 0, 5, 3, 0, 3, 4, 1, 5, 0, 7, 9, 9, 3, 4, 1, 3, 2, 7, 1, 0, 0, 3,
     7, 8, 2, 6, 9, 3, 6, 1, 7, 3, 7, 7, 8, 9, 8, 0, 4, 4, 4, 9, 6, 8, 2, 9, 2,
     7, 6, 4, 7, 5, 0, 9, 4, 6, 6, 4, 9, 0, 1, 7, 9, 7, 7, 5, 8, 7, 2, 0, 7, 0,
     9, 6, 3, 3, 0, 2, 8, 6, 4, 1, 6, 6, 9, 2, 8, 8, 7, 9, 1, 0, 9, 4, 6, 5, 5,
     5, 5, 4, 7, 8, 5, 1, 9, 4, 0, 4, 0, 2, 6, 3, 0, 6, 5, 7, 4, 8, 8, 6, 7, 1,
     5, 0, 5, 8, 2, 0, 6, 8, 1, 9, 0, 8, 9, 0, 2, 0, 0, 0, 7, 0, 8, 3, 8, 3, 6,
     7, 6, 2, 7, 3, 8, 5, 4, 8, 4, 5, 8, 1, 7, 7, 1, 1, 5, 3, 1, 7, 6, 4, 4, 7,
     5, 7, 3, 0, 2, 7, 0, 0, 6, 9, 8, 5, 5, 5, 7, 1, 3, 6, 6, 9, 5, 9, 6, 2, 2,
     8, 4, 2, 9, 1, 4, 8, 1, 9, 8, 6, 0, 8, 3, 4, 9, 3, 6, 4, 7, 5, 2, 9, 2, 7,
     1, 9, 0, 7, 4, 1, 6, 8, 4, 4, 4, 3, 6, 5, 5, 1, 0, 7, 0, 4, 3, 4, 2, 7, 1,
     1, 5, 5, 9, 6, 9, 9, 5, 0, 8, 0, 9, 3, 0, 4, 2, 8, 8, 0, 1, 7, 7, 9, 0, 4,
     1, 7, 4, 4, 9, 7, 7, 9, 2>>

\* The 752 digits of 5^1075: 2^-1075, half the least subnormal, is
\* 0.(these digits) * 10^-323, and a literal of that value or less rounds
\* to 0.
UnderflowDigits ==
    <<2, 4, 7, 0, 3, 2, 8, 2, 2, 9, 2, 0, 6, 2, 3, 2, 7, 2, 0, 8, 8, 2, 8, 4, 3,
     9, 6, 4, 3, 4, 1, 1, 0, 6, 8, 6, 1, 8, 2, 5, 2, 9, 9, 0, 1, 3, 0, 7, 1, 6,
     2, 3, 8, 2, 2, 1, 2, 7, 9, 2, 8, 4, 1, 2, 5, 0, 3, 3, 7, 7, 5, 3, 6, 3, 5,
     1, 0, 4, 3, 7, 5, 9, 3, 2, 6, 4, 9, 9, 1, 8, 1, 8, 0, 8, 1, 7, 9, 9, 6, 1,
     8, 9, 8, 9, 8, 2, 8, 2, 3, 4, 7, 7, 2, 2, 8, 5, 8, 8, 6, 5, 4, 6, 3, 3, 2,
     8, 3, 5, 5, 1, 7, 7, 9, 6, 9, 8, 9, 8, 1, 9, 9, 3, 8, 7, 3, 9, 8, 0, 0, 5,
     3, 9, 0, 9, 3, 9, 0, 6, 3, 1, 5, 0, 3, 5, 6, 5, 9, 5, 1, 5, 5, 7, 0, 2, 2,
     6, 3, 9, 2, 2, 9, 0, 8, 5, 8, 3, 9, 2, 4, 4, 9, 1, 0, 5, 1, 8, 4, 4, 3, 5,
     9, 3, 1, 8, 0, 2, 8, 4, 9, 9, 3, 6, 5, 3, 6, 1, 5, 2, 5, 0, 0, 3, 1, 9, 3,
     7, 0, 4, 5, 7, 6, 7, 8, 2, 4, 9, 2, 1, 9, 3, 6, 5, 6, 2, 3, 6, 6, 9, 8, 6,
     3, 6, 5, 8, 4, 8, 0, 7, 5, 7, 0, 0, 1, 5, 8, 5, 7, 6, 9, 2, 6, 9, 9, 0, 3,
     7, 0, 6, 3, 1, 1, 9, 2, 8, 2, 7, 9, 5, 5, 8, 5, 5, 1, 3, 3, 2, 9, 2, 7, 8,
     3, 4, 3, 3, 8, 4, 0, 9, 3, 5, 1, 9, 7, 8, 0, 1, 5, 5, 3, 1, 2, 4, 6, 5, 9,
     7, 2, 6, 3, 5, 7, 9, 5, 7, 4, 6, 2, 2, 7, 6, 6, 4, 6, 5, 2, 7, 2, 8, 2, 7,
     2, 2, 0, 0, 5, 6, 3, 7, 4, 0, 0, 6, 4, 8, 5, 4, 9, 9, 9, 7, 7, 0, 9, 6, 5,
     9, 9, 4, 7, 0, 4, 5, 4, 0, 2, 0, 8, 2, 8, 1, 6, 6, 2, 2, 6, 2, 3, 7, 8, 5,
     7, 3, 9, 3, 4, 5, 0, 7, 3, 6, 3, 3, 9, 0, 0, 7, 9, 6, 7, 7, 6, 1, 9, 3, 0,
     5, 7, 7, 5, 0, 6, 7, 4, 0, 1, 7, 6, 3, 2, 4, 6, 7, 3, 6, 0, 0, 9, 6, 8, 9,
     5, 1, 3, 4, 0, 5, 3, 5, 5, 3, 7, 4, 5, 8, 5, 1, 6, 6, 6, 1, 1, 3, 4, 2, 2,
     3, 7, 6, 6, 6, 7, 8, 6, 0, 4, 1, 6, 2, 1, 5, 9, 6, 8, 0, 4, 6, 1, 9, 1, 4,
     4, 6, 7, 2, 9, 1, 8, 4, 0, 3, 0, 0, 5, 3, 0, 0, 5, 7, 5, 3, 0, 8, 4, 9, 0,
     4, 8, 7, 6, 5, 3, 9, 1, 7, 1, 1, 3, 8, 6, 5, 9, 1, 6, 4, 6, 2, 3, 9, 5, 2,
     4, 9, 1, 2, 6, 2, 3, 6, 5, 3, 8, 8, 1, 8, 7, 9, 6, 3, 6, 2, 3, 9, 3, 7, 3,
     2, 8, 0, 4, 2, 3, 8, 9, 1, 0, 1, 8, 6, 7, 2, 3, 4, 8, 4, 9, 7, 6, 6, 8, 2,
     3, 5, 0, 8, 9, 8, 6, 3, 3, 8, 8, 5, 8, 7, 9, 2, 5, 6, 2, 8, 3, 0, 2, 7, 5,
     5, 9, 9, 5, 6, 5, 7, 5, 2, 4, 4, 5, 5, 5, 0, 7, 2, 5, 5, 1, 8, 9, 3, 1, 3,
     6, 9, 0, 8, 3, 6, 2, 5, 4, 7, 7, 9, 1, 8, 6, 9, 4, 8, 6, 6, 7, 9, 9, 4, 9,
     6, 8, 3, 2, 4, 0, 4, 9, 7, 0, 5, 8, 2, 1, 0, 2, 8, 5, 1, 3, 1, 8, 5, 4, 5,
     1, 3, 9, 6, 2, 1, 3, 8, 3, 7, 7, 2, 2, 8, 2, 6, 1, 4, 5, 4, 3, 7, 6, 9, 3,
     4, 1, 2, 5, 3, 2, 0, 9, 8, 5, 9, 1, 3, 2, 7, 6, 6, 7, 2, 3, 6, 3, 2, 8, 1,
     2, 5>>

\* 0.d * 10^order rounds to inf.
Overflows(d, order) == order > 309 \/ (order = 309 /\ DigitsLeq(OverflowDigits, d))

\* 0.d * 10^order rounds to 0.
Underflows(d, order) == order < -323 \/ (order = -323 /\ DigitsLeq(d, UnderflowDigits))

\* The finite float 0.d * 10^order: a rational when numerator and denominator
\* have nine digits at most, else the digits and the order themselves.
Scientific(d, order) ==
    LET k == order - Len(d)
    IN  IF Len(d) <= 9 /\ k >= 0 /\ order <= 9 THEN F(DigitsNumber(d, 0) * Pow10(k))
        ELSE IF Len(d) <= 9 /\ k < 0 /\ k >= -9 THEN Fin(DigitsNumber(d, 0), Pow10(-k))
        ELSE [kind |-> "finite", sign |-> 1, digits |-> d, order |-> order]

\* The exponent part of a decimal literal: nothing, or "e" or "E", an
\* optional sign and one digit at least.
NoExponent == [ok |-> FALSE, value |-> 0]

\* The value of the digits of an exponent; one of seven digits or more counts
\* as 1000000, which decides overflow and underflow alike for every text of
\* fewer than 999000 characters.
ExponentValue(digits) ==
    LET t == Drop(digits, LeadingZeros(digits))
    IN  IF Len(t) > 6 THEN 1000000 ELSE ParseDigits(t, 0)

Exponent(s) ==
    IF s = <<>> THEN [ok |-> TRUE, value |-> 0]
    ELSE IF Lower(s[1]) # 101 THEN NoExponent
    ELSE LET signed == Len(s) >= 2 /\ IsSign(s[2])
             digits == Drop(s, IF signed THEN 2 ELSE 1)
         IN  IF digits = <<>> \/ LeadingDigits(digits) # Len(digits) THEN NoExponent
             ELSE IF signed /\ s[2] = 45
                  THEN [ok |-> TRUE, value |-> -ExponentValue(digits)]
             ELSE [ok |-> TRUE, value |-> ExponentValue(digits)]

\* An unsigned decimal literal: digits, an optional point and digits (one
\* digit at least in all), an optional exponent.
Decimal(s) ==
    LET n1 == LeadingDigits(s)
        r1 == Drop(s, n1)
        point == r1 # <<>> /\ r1[1] = 46
        n2 == IF point THEN LeadingDigits(Tail(r1)) ELSE 0
        r2 == IF point THEN Drop(r1, 1 + n2) ELSE r1
        e == Exponent(r2)
        m == SubSeq(s, 1, n1) \o (IF point THEN SubSeq(r1, 2, 1 + n2) ELSE <<>>)
        d == Significant(m)
        order == n1 - LeadingZeros(m) + e.value
    IN  IF n1 + n2 = 0 \/ ~e.ok THEN FloatError
        ELSE IF d = <<>> THEN F(0)
        ELSE IF Overflows(d, order) THEN Inf
        ELSE IF Underflows(d, order) THEN F(0)
        ELSE Scientific(d, order)

Negate(x) ==
    IF x.kind = "finite"
    THEN IF "num" \in DOMAIN x THEN [x EXCEPT !.num = -@] ELSE [x EXCEPT !.sign = -@]
    ELSE IF x.kind = "inf" THEN NegInf
    ELSE IF x.kind = "-inf" THEN Inf
    ELSE x

\* An unsigned float literal: "inf", "infinity", "nan" or a decimal literal.
Unsigned(s) ==
    IF LowerText(s) \in InfTexts THEN Inf
    ELSE IF LowerText(s) = NanText THEN NaN
    ELSE Decimal(s)

\* float(text)
ParseFloat(s) ==
    LET t == RStripAscii(LStripAscii(AsciiText(s)))
        u == SelectSeq(t, NotUnderscore)
    IN  IF ~UnderscoresValid(t) \/ u = <<>> THEN FloatError
        ELSE IF IsSign(u[1])
             THEN IF u[1] = 45 THEN Negate(Unsigned(Tail(u))) ELSE Unsigned(Tail(u))
        ELSE Unsigned(u)

\* astype('float') of one cell of a column of texts: float(text), and nan for
\* the None of a NULL.
AsFloat(x) == IF IsStr(x) THEN ParseFloat(x.text) ELSE NaN

(***************************************************************************)
(* Relations                                                               *)
(***************************************************************************)
BaseTables == {"vendor_invoice", "purchases", "purchase_prices", "sales"}

SummaryTable == "vendor_sales_summary"

Tables == BaseTables \cup {SummaryTable}

Absent == [present |-> FALSE, columns |-> {}, rows |-> <<>>]

Relation(cols, rows) == [present |-> TRUE, columns |-> cols, rows |-> rows]

\* The spelling of the column names of the query and of the cleaned frame.
ColumnText ==
    "VendorNumber" :> <<86, 101, 110, 100, 111, 114, 78, 117, 109, 98, 101, 114>>
        @@ "VendorName" :> <<86, 101, 110, 100, 111, 114, 78, 97, 109, 101>>
        @@ "Brand" :> <<66, 114, 97, 110, 100>>
        @@ "Description" :> <<68, 101, 115, 99, 114, 105, 112, 116, 105, 111, 110>>
        @@ "PurchasePrice" :> <<80, 117, 114, 99, 104, 97, 115, 101, 80, 114, 105, 99, 101>>
        @@ "Quantity" :> <<81, 117, 97, 110, 116, 105, 116, 121>>
        @@ "Dollars" :> <<68, 111, 108, 108, 97, 114, 115>>
        @@ "Price" :> <<80, 114, 105, 99, 101>>
        @@ "Volume" :> <<86, 111, 108, 117, 109, 101>>
        @@ "VendorNo" :> <<86, 101, 110, 100, 111, 114, 78, 111>>
        @@ "SalesQuantity" :> <<83, 97, 108, 101, 115, 81, 117, 97, 110, 116, 105, 116, 121>>
        @@ "SalesDollars" :> <<83, 97, 108, 101, 115, 68, 111, 108, 108, 97, 114, 115>>
        @@ "SalesPrice" :> <<83, 97, 108, 101, 115, 80, 114, 105, 99, 101>>
        @@ "ExciseTax" :> <<69, 120, 99, 105, 115, 101, 84, 97, 120>>
        @@ "Freight" :> <<70, 114, 101, 105, 103, 104, 116>>
        @@ "ActualPrice" :> <<65, 99, 116, 117, 97, 108, 80, 114, 105, 99, 101>>
        @@ "TotalPurchaseQuantity" :> <<84, 111, 116, 97, 108, 80, 117, 114, 99, 104, 97, 115, 101, 81, 117, 97, 110, 116, 105, 116, 121>>
        @@ "TotalPurchaseDollars" :> <<84, 111, 116, 97, 108, 80, 117, 114, 99, 104, 97, 115, 101, 68, 111, 108, 108, 97, 114, 115>>
        @@ "TotalSalesQuantity" :> <<84, 111, 116, 97, 108, 83, 97, 108, 101, 115, 81, 117, 97, 110, 116, 105, 116, 121>>
        @@ "TotalSalesDollars" :> <<84, 111, 116, 97, 108, 83, 97, 108, 101, 115, 68, 111, 108, 108, 97, 114, 115>>
        @@ "TotalSalesPrice" :> <<84, 111, 116, 97, 108, 83, 97, 108, 101, 115, 80, 114, 105, 99, 101>>
        @@ "TotalExciseTax" :> <<84, 111, 116, 97, 108, 69, 120, 99, 105, 115, 101, 84, 97, 120>>
        @@ "FreightCost" :> <<70, 114, 101, 105, 103, 104, 116, 67, 111, 115, 116>>
        @@ "GrossProfit" :> <<71, 114, 111, 115, 115, 80, 114, 111, 102, 105, 116>>
        @@ "ProfitMargin" :> <<80, 114, 111, 102, 105, 116, 77, 97, 114, 103, 105, 110>>
        @@ "StockTurnover" :> <<83, 116, 111, 99, 107, 84, 117, 114, 110, 111, 118, 101, 114>>
        @@ "SalesToPurchaseRatio" :> <<83, 97, 108, 101, 115, 84, 111, 80, 117, 114, 99, 104, 97, 115, 101, 82, 97, 116, 105, 111>>

\* The header of a relation with the columns cols, spelled as the query
\* spells them.
Header(cols) == {ColumnText[c] : c \in cols}

\* The columns the aggregation query names, per base relation.
RequiredColumns(t) ==
    CASE t = "vendor_invoice" -> {"VendorNumber", "Freight"}
      [] t = "purchases" -> {"VendorNumber", "VendorName", "Brand", "Description",
                             "PurchasePrice", "Quantity", "Dollars"}
      [] t = "purchase_prices" -> {"Brand", "Price", "Volume"}
      [] t = "sales" -> {"VendorNo", "Brand", "SalesQuantity", "SalesDollars",
                         "SalesPrice", "ExciseTax"}

RECURSIVE SumFn(_)
\* SUM over the rows of one group of an integer column without NULLs; f maps
\* each row of the group to its value.
SumFn(f) ==
    IF DOMAIN f = {} THEN 0
    ELSE LET x == CHOOSE y \in DOMAIN f : TRUE
         IN  f[x] + SumFn([y \in DOMAIN f \ {x} |-> f[y]])

RECURSIVE SumFloats(_)
SumFloats(f) ==
    IF DOMAIN f = {} THEN F(0)
    ELSE LET x == CHOOSE y \in DOMAIN f : TRUE
         IN  FAdd(f[x], SumFloats([y \in DOMAIN f \ {x} |-> f[y]]))

\* SUM over the rows of one group of a float column: the NULLs are left
\* out, and the sum is NULL when every value is.
SumNullable(f) ==
    LET valued == {x \in DOMAIN f : f[x].kind # "nan"}
    IN  IF valued = {} THEN NaN ELSE SumFloats([x \in valued |-> f[x]])

(***************************************************************************)
(* The aggregation query of create_vendor_summary                          *)
(***************************************************************************)
\* FreightSummary: GROUP BY VendorNumber, SUM(Freight).
FreightSummary(vi) ==
    LET G(v) == {i \in DOMAIN vi : vi[i].VendorNumber = v}
    IN  {[VendorNumber |-> v, FreightCost |-> F(SumFn([i \in G(v) |-> vi[i].Freight]))] :
            v \in {vi[i].VendorNumber : i \in DOMAIN vi}}

\* Variant of PurchaseFilter: >= for >.
PurchaseFilterNonNegative(r) == r.PurchasePrice >= 0

\* WHERE p.PurchasePrice > 0
PurchaseFilter(r) == r.PurchasePrice > 0

\* JOIN purchase_prices pp ON p.Brand = pp.Brand
PurchaseJoin(r, c) == r.Brand = c.Brand

\* Variant of PurchaseGroupKey: p.Quantity added to the GROUP BY.
PurchaseGroupKeyWithQuantity(r, c) ==
    [VendorNumber |-> r.VendorNumber, VendorName |-> r.VendorName, Brand |-> r.Brand,
     Description |-> r.Description, PurchasePrice |-> r.PurchasePrice,
     ActualPrice |-> c.Price, Volume |-> c.Volume, Quantity |-> r.Quantity]

\* GROUP BY p.VendorNumber, p.VendorName, p.Brand, p.Description,
\*          p.PurchasePrice, pp.Price, pp.Volume
PurchaseGroupKey(r, c) ==
    [VendorNumber |-> r.VendorNumber, VendorName |-> r.VendorName, Brand |-> r.Brand,
     Description |-> r.Description, PurchasePrice |-> r.PurchasePrice,
     ActualPrice |-> c.Price, Volume |-> c.Volume]

\* The joined and filtered (purchase row, price row) index pairs.
PurchaseJoined(p, pp) ==
    {x \in (DOMAIN p) \X (DOMAIN pp) :
        PurchaseJoin(p[x[1]], pp[x[2]]) /\ PurchaseFilter(p[x[1]])}

PurchaseSummary(p, pp) ==
    LET J == PurchaseJoined(p, pp)
        K(x) == PurchaseGroupKey(p[x[1]], pp[x[2]])
        G(k) == {x \in J : K(x) = k}
    IN  {k @@ [TotalPurchaseQuantity |-> SumFn([x \in G(k) |-> p[x[1]].Quantity]),
               TotalPurchaseDollars |-> SumNullable([x \in G(k) |-> p[x[1]].Dollars])] :
            k \in {K(x) : x \in J}}

\* SalesSummary: GROUP BY VendorNo, Brand with the four sums.
SalesSummary(s) ==
    LET G(k) == {i \in DOMAIN s : s[i].VendorNo = k[1] /\ s[i].Brand = k[2]}
    IN  {[VendorNo |-> k[1], Brand |-> k[2],
          TotalSalesQuantity |-> F(SumFn([i \in G(k) |-> s[i].SalesQuantity])),
          TotalSalesDollars |-> F(SumFn([i \in G(k) |-> s[i].SalesDollars])),
          TotalSalesPrice |-> F(SumFn([i \in G(k) |-> s[i].SalesPrice])),
          TotalExciseTax |-> F(SumFn([i \in G(k) |-> s[i].ExciseTax]))] :
            k \in {<<s[i].VendorNo, s[i].Brand>> : i \in DOMAIN s}}

\* ON ps.VendorNumber = ss.VendorNo AND ps.Brand = ss.Brand
SalesMatch(ps, ss) == ps.VendorNumber = ss.VendorNo /\ ps.Brand = ss.Brand

\* ON ps.VendorNumber = fs.VendorNumber
FreightMatch(ps, fs) == ps.VendorNumber = fs.VendorNumber

SalesNulls ==
    [TotalSalesQuantity |-> NaN, TotalSalesDollars |-> NaN, TotalSalesPrice |-> NaN,
     TotalExciseTax |-> NaN]

FreightNulls == [FreightCost |-> NaN]

\* Variant of LeftJoinSales: JOIN for LEFT JOIN.
InnerJoinSales(ps, ss) ==
    {l @@ r : <<l, r>> \in {y \in ps \X ss : SalesMatch(y[1], y[2])}}

\* PurchaseSummary ps LEFT JOIN SalesSummary ss: every row of ps with each
\* matching row of ss, or with NULLs (read by pandas as NaN) when none matches.
LeftJoinSales(ps, ss) ==
    {l @@ r : <<l, r>> \in {y \in ps \X ss : SalesMatch(y[1], y[2])}}
        \cup {l @@ SalesNulls : l \in {y \in ps : \A r \in ss : ~SalesMatch(y, r)}}

\* ... LEFT JOIN FreightSummary fs, likewise.
LeftJoinFreight(j, fs) ==
    {l @@ r : <<l, r>> \in {y \in j \X fs : FreightMatch(y[1], y[2])}}
        \cup {l @@ FreightNulls : l \in {y \in j : \A r \in fs : ~FreightMatch(y, r)}}

SelectColumns ==
    {"VendorNumber", "VendorName", "Brand", "Description", "PurchasePrice",
     "ActualPrice", "Volume", "TotalPurchaseQuantity", "TotalPurchaseDollars",
     "TotalSalesQuantity", "TotalSalesDollars", "TotalSalesPrice", "TotalExciseTax",
     "FreightCost"}

Project(r, cols) == [c \in cols |-> r[c]]

\* The SELECT list over PurchaseSummary ps LEFT JOIN SalesSummary ss
\* LEFT JOIN FreightSummary fs, before ORDER BY.
SelectRows(d) ==
    LET ps == PurchaseSummary(d["purchases"].rows, d["purchase_prices"].rows)
        ss == SalesSummary(d["sales"].rows)
        fs == FreightSummary(d["vendor_invoice"].rows)
        j1 == LeftJoinSales(ps, ss)
        j2 == LeftJoinFreight(j1, fs)
    IN  {Project(r, SelectColumns) : r \in j2}

\* x is not after y in MySQL's ascending order: NULL comes before every
\* value, so under DESC it comes last.
SortLeq(x, y) == x.kind = "nan" \/ FLeq(x, y)

\* The rows ORDER BY ... DESC may put first: those with the largest value.
FirstDescending(S) ==
    {r \in S : \A q \in S : SortLeq(q.TotalPurchaseDollars, r.TotalPurchaseDollars)}

RECURSIVE OrderBy(_)
\* ORDER BY ps.TotalPurchaseDollars DESC: every sequence of the rows with the
\* sort key non-increasing.  The order of rows with equal keys is not
\* specified by SQL, so each such order is a possible result.
OrderBy(S) ==
    IF S = {} THEN {<<>>}
    ELSE UNION {{<<r>> \o t : t \in OrderBy(S \ {r})} : r \in FirstDescending(S)}

\* pd.read_sql_query(query, engine): the possible result frames.
ReadSqlQuery(d) == OrderBy(SelectRows(d))

(***************************************************************************)
(* clean_data                                                              *)
(***************************************************************************)
\* The columns of the result whose cells are integers: the keys, the two
\* prices and the summed quantity.  They hold no NULL.
IntegerColumns ==
    {"VendorNumber", "Brand", "PurchasePrice", "ActualPrice", "TotalPurchaseQuantity"}

\* The text columns of the result.
TextColumns == {"VendorName", "Description"}

\* The columns pandas holds as float64 once Volume is cast.
FloatColumns ==
    {"Volume", "TotalPurchaseDollars", "TotalSalesQuantity", "TotalSalesDollars",
     "TotalSalesPrice", "TotalExciseTax", "FreightCost"}

\* fillna(v) of one cell: a nan or None becomes the number v, whatever the
\* column.
FillNa(x, v) == IF x.kind = "nan" THEN F(v) ELSE x

\* df.fillna(0, inplace=True): every column of the frame; the integer columns
\* hold nothing to fill.
FillRow(r) == [c \in DOMAIN r |-> IF c \in IntegerColumns THEN r[c] ELSE FillNa(r[c], 0)]

CleanRow(r) ==
    LET r1 == [r EXCEPT !.Volume = AsFloat(@)]
        r2 == FillRow(r1)
        r3 == [r2 EXCEPT !.VendorName = StripCell(@), !.Description = StripCell(@)]
        GrossProfit == FSub(r3.TotalSalesDollars, r3.TotalPurchaseDollars)
    IN  r3 @@ [GrossProfit |-> GrossProfit,
               ProfitMargin |-> FMul(FDiv(GrossProfit, r3.TotalSalesDollars), F(100)),
               StockTurnover |-> FDiv(r3.TotalSalesQuantity, F(r3.TotalPurchaseQuantity)),
               SalesToPurchaseRatio |->
                   FDiv(r3.TotalSalesDollars, r3.TotalPurchaseDollars)]

clean_data(frame) == [i \in DOMAIN frame |-> CleanRow(frame[i])]

\* df['Volume'].astype('float') goes through: every cell is a float literal
\* or NULL.
VolumeCasts(frame) == \A i \in DOMAIN frame : AsFloat(frame[i].Volume) # FloatError

\* df[c].str is there: the column, NULLs filled with 0, is empty or holds a
\* text.  A column of numbers only has no .str accessor (AttributeError).
HasStrAccessor(frame, c) == frame = <<>> \/ \E i \in DOMAIN frame : IsStr(frame[i][c])

\* clean_data returns: neither the cast of Volume nor .str raises.
Cleans(frame) ==
    VolumeCasts(frame) /\ \A c \in TextColumns : HasStrAccessor(frame, c)

\* The exception clean_data raises: the cast is its first statement.
CleanError(frame) ==
    IF ~VolumeCasts(frame) THEN "ValueError: could not convert string to float"
    ELSE "AttributeError: Can only use .str accessor with string values"

DerivedColumns == {"GrossProfit", "ProfitMargin", "StockTurnover", "SalesToPurchaseRatio"}

CleanColumns == SelectColumns \cup DerivedColumns

\* The float columns of the cleaned frame.
CleanFloatColumns == FloatColumns \cup DerivedColumns

\* The float columns of the frame read from the file of base relation t; the
\* other cells of the files are integers and text.
CsvFloatColumns(t) == IF t = "purchases" THEN {"Dollars"} ELSE {}

(***************************************************************************)
(* df.to_sql(table_name, con=engine, if_exists='replace', index=False)      *)
(***************************************************************************)
\* DROP TABLE t
DropTable(d, t) == [d EXCEPT ![t] = Absent]

\* CREATE TABLE t with the frame's columns: the table is there, without rows.
CreateTable(d, t, cols) == [d EXCEPT ![t] = Relation(cols, <<>>)]

\* INSERT INTO t of the frame's rows, in frame order.  pandas sends a nan as
\* NULL, which a later read gives back as nan.
InsertRows(d, t, rows) == [d EXCEPT ![t].rows = rows]

\* A float the driver cannot encode: inf and -inf ("inf can not be used with
\* MySQL"); finite floats and nan go through.
Unencodable(x) == x.kind \in {"inf", "-inf"}

\* The INSERT is sent when every float cell of the frame can be encoded
\* (floats names the float columns; integers and text always can);
\* otherwise to_sql raises ValueError and no row is stored.
Encodable(rows, floats) ==
    \A i \in DOMAIN rows : \A c \in floats : ~Unencodable(rows[i][c])

(***************************************************************************)
(* Configuration and connection                                            *)
(***************************************************************************)
Params == {"MYSQL_USER", "MYSQL_PASSWORD", "MYSQL_HOST", "MYSQL_DB"}

\* The value .env gives a parameter that is set.
EnvValue(p) ==
    CASE p = "MYSQL_USER" -> "etl" [] p = "MYSQL_PASSWORD" -> "secret"
      [] p = "MYSQL_HOST" -> "dbhost" [] p = "MYSQL_DB" -> "inventory"

\* The account the MySQL server accepts.
ServerUrl == [p \in Params |-> EnvValue(p)]

\* create_engine(f"mysql+pymysql://{MYSQL_USER}:{MYSQL_PASSWORD}@{MYSQL_HOST}/{MYSQL_DB}"):
\* os.getenv gives None for an unset variable and the f-string renders it "None".
\* The engine is lazy: nothing connects until a statement runs.
CreateEngine(e) == [p \in Params |-> IF p \in e THEN EnvValue(p) ELSE "None"]

\* A statement reaches the server when the server is up and the engine's URL
\* is that of the account.
Connects(engine, up) == up /\ engine = ServerUrl

\* if not all([MYSQL_USER, MYSQL_PASSWORD, MYSQL_HOST, MYSQL_DB])
AllSet(e) == \A p \in Params : p \in e

\* The column names of a relation as MySQL compares them: without regard to
\* case.
ColumnNames(rel) == {LowerText(h) : h \in rel.columns}

\* The names of the columns cols that a relation with the column names names
\* does not have.
UnknownColumns(cols, names) == {c \in cols : LowerText(ColumnText[c]) \notin names}

\* The aggregation query executes when every relation it names exists with
\* the columns it names.
QueryExecutes(d) ==
    \A t \in BaseTables :
        d[t].present /\ UnknownColumns(RequiredColumns(t), ColumnNames(d[t])) = {}

(***************************************************************************)
(* scripts/ingest.py and its older copy ingest.py: raw CSV ingestion.  The   *)
(* two differ in their module level only; the loop is the same.             *)
(***************************************************************************)
\* A directory entry stem + ext; file.endswith(".csv") and file[:-4].
EndsWithCsv(f) == f.ext = ".csv"

TableName(f) == f.stem

\* The states in which the script is not running.
RawEnded == {"idle", "done", "ValueError", "EmptyDataError", "OperationalError"}

\* scripts/ingest.py is started, the parameters all set: the engine is
\* created and load_raw_data starts its loop over os.listdir(data_dir).
RawStartup ==
    /\ raw_pc \in RawEnded
    /\ AllSet(env)
    /\ raw_script' = "scripts/ingest.py"
    /\ raw_pc' = "loading"
    /\ raw_todo' = DOMAIN files
    /\ UNCHANGED <<env, server_up, files, db, raw_file, pc, df, err, attempts, before>>

\* scripts/ingest.py is started, a parameter missing: raise ValueError before
\* the engine exists.
RawConfigError ==
    /\ raw_pc \in RawEnded
    /\ ~AllSet(env)
    /\ raw_script' = "scripts/ingest.py"
    /\ raw_pc' = "ValueError"
    /\ UNCHANGED <<env, server_up, files, db, raw_todo, raw_file, pc, df, err,
                   attempts, before>>

\* ingest.py, the older copy of the script, is started: its module level has
\* no check of the parameters, so the engine is created whatever is set and
\* load_raw_data starts the same loop over os.listdir("data/raw").
LegacyStartup ==
    /\ raw_pc \in RawEnded
    /\ raw_script' = "ingest.py"
    /\ raw_pc' = "loading"
    /\ raw_todo' = DOMAIN files
    /\ UNCHANGED <<env, server_up, files, db, raw_file, pc, df, err, attempts, before>>

\* One iteration on any entry that is not a .csv: skipped.
RawSkipFile ==
    /\ raw_pc = "loading"
    /\ \E f \in raw_todo :
        /\ ~EndsWithCsv(f)
        /\ raw_todo' = raw_todo \ {f}
    /\ UNCHANGED <<env, server_up, files, raw_script, db, raw_pc, raw_file, pc, df, err,
                   attempts, before>>

\* One iteration on a .csv entry: df = pd.read_csv(file_path).
RawReadCsv ==
    /\ raw_pc = "loading"
    /\ \E f \in raw_todo :
        /\ EndsWithCsv(f)
        /\ files[f].columns # {}
        /\ raw_file' = f
        /\ raw_todo' = raw_todo \ {f}
    /\ raw_pc' = "read"
    /\ UNCHANGED <<env, server_up, files, raw_script, db, pc, df, err, attempts, before>>

\* pd.read_csv of a file without a header line raises EmptyDataError; nothing
\* catches it, so the loop ends and the entries left are not loaded.
RawReadCsvFails ==
    /\ raw_pc = "loading"
    /\ \E f \in raw_todo : EndsWithCsv(f) /\ files[f].columns = {}
    /\ raw_pc' = "EmptyDataError"
    /\ UNCHANGED <<env, server_up, files, raw_script, db, raw_todo, raw_file, pc, df, err,
                   attempts, before>>

\* ingest_to_db, the server not reached: to_sql raises at its first statement
\* and the loop ends.
RawToSqlFails ==
    /\ raw_pc = "read"
    /\ ~Connects(CreateEngine(env), server_up)
    /\ raw_pc' = "OperationalError"
    /\ UNCHANGED <<env, server_up, files, raw_script, db, raw_todo, raw_file, pc, df, err,
                   attempts, before>>

\* ingest_to_db, the table there: DROP TABLE.
RawDropTable ==
    /\ raw_pc = "read"
    /\ Connects(CreateEngine(env), server_up)
    /\ db[TableName(raw_file)].present
    /\ db' = DropTable(db, TableName(raw_file))
    /\ raw_pc' = "dropped"
    /\ UNCHANGED <<env, server_up, files, raw_script, raw_todo, raw_file, pc, df, err,
                   attempts, before>>

\* ingest_to_db: CREATE TABLE, at once when the table was not there.
RawCreateTable ==
    /\ \/ raw_pc = "dropped"
       \/ /\ raw_pc = "read"
          /\ Connects(CreateEngine(env), server_up)
          /\ ~db[TableName(raw_file)].present
    /\ db' = CreateTable(db, TableName(raw_file), files[raw_file].columns)
    /\ raw_pc' = "created"
    /\ UNCHANGED <<env, server_up, files, raw_script, raw_todo, raw_file, pc, df, err,
                   attempts, before>>

\* ingest_to_db: INSERT of the file's rows; the loop goes on.
RawInsertRows ==
    /\ raw_pc = "created"
    /\ Encodable(files[raw_file].rows, CsvFloatColumns(TableName(raw_file)))
    /\ db' = InsertRows(db, TableName(raw_file), files[raw_file].rows)
    /\ raw_pc' = "loading"
    /\ UNCHANGED <<env, server_up, files, raw_script, raw_todo, raw_file, pc, df, err,
                   attempts, before>>

RawFinish ==
    /\ raw_pc = "loading"
    /\ raw_todo = {}
    /\ raw_pc' = "done"
    /\ UNCHANGED <<env, server_up, files, raw_script, db, raw_todo, raw_file, pc, df, err,
                   attempts, before>>

(***************************************************************************)
(* scripts/vendor_sales_summary_ingest.py: __main__                        *)
(***************************************************************************)
\* Variant of MainAfterQuery: the exception caught and the run going on.
MainAfterQuerySwallowed(ok) == "queried"

\* Where __main__ stands after create_vendor_summary(engine): an exception
\* is not caught, so the script ends there.
MainAfterQuery(ok) == IF ok THEN "queried" ELSE "failed"

\* The error read_sql_query raises.  The driver cannot connect:
\* OperationalError.  The server rejects the statement: error 1146 (no such
\* table), which the driver raises as ProgrammingError, or else error 1054
\* (unknown column), which it raises as OperationalError.
QueryError(e, up, d) ==
    IF ~Connects(CreateEngine(e), up) THEN "OperationalError"
    ELSE IF \E t \in BaseTables : ~d[t].present THEN "ProgrammingError"
    ELSE "OperationalError"

\* The script is started: module level (no check of the parameters, the lazy
\* engine) up to the first statement of __main__.
Startup ==
    /\ pc \in {"idle", "done", "failed"}
    /\ pc' = "main"
    /\ df' = <<>>
    /\ err' = "none"
    /\ attempts' = 0
    /\ before' = db[SummaryTable]
    /\ UNCHANGED <<env, server_up, files, raw_script, db, raw_pc, raw_todo, raw_file>>

\* summary_df = create_vendor_summary(engine), the query executing.
CreateVendorSummary ==
    /\ pc = "main"
    /\ Connects(CreateEngine(env), server_up) /\ QueryExecutes(db)
    /\ \E frame \in ReadSqlQuery(db) : df' = frame
    /\ pc' = MainAfterQuery(TRUE)
    /\ attempts' = attempts + 1
    /\ UNCHANGED <<env, server_up, files, raw_script, db, raw_pc, raw_todo, raw_file,
                   err, before>>

\* summary_df = create_vendor_summary(engine), the query raising.
CreateVendorSummaryFails ==
    /\ pc = "main"
    /\ ~(Connects(CreateEngine(env), server_up) /\ QueryExecutes(db))
    /\ err' = QueryError(env, server_up, db)
    /\ pc' = MainAfterQuery(FALSE)
    /\ attempts' = attempts + 1
    /\ UNCHANGED <<env, server_up, files, raw_script, db, raw_pc, raw_todo, raw_file,
                   df, before>>

\* clean_df = clean_data(summary_df) raising: astype('float') ValueError
\* ("could not convert string to float") on a Volume that is no float
\* literal, or .str AttributeError on a VendorName or Description column
\* without a text.  Nothing catches it, the script ends before the write.
CleanDataFails ==
    /\ pc = "queried"
    /\ ~Cleans(df)
    /\ err' = CleanError(df)
    /\ pc' = "failed"
    /\ UNCHANGED <<env, server_up, files, raw_script, db, raw_pc, raw_todo, raw_file, df,
                   attempts, before>>

\* clean_df = clean_data(summary_df)
CleanData ==
    /\ pc = "queried"
    /\ Cleans(df)
    /\ df' = clean_data(df)
    /\ pc' = "cleaned"
    /\ UNCHANGED <<env, server_up, files, raw_script, db, raw_pc, raw_todo, raw_file, err,
                   attempts, before>>

\* ingest_db(clean_df, 'vendor_sales_summary', engine), the table there:
\* DROP TABLE.
IngestDbDropTable ==
    /\ pc = "cleaned"
    /\ db[SummaryTable].present
    /\ db' = DropTable(db, SummaryTable)
    /\ pc' = "dropped"
    /\ UNCHANGED <<env, server_up, files, raw_script, raw_pc, raw_todo, raw_file, df, err,
                   attempts, before>>

\* ingest_db: CREATE TABLE, at once when the table was not there.
IngestDbCreateTable ==
    /\ pc = "dropped" \/ (pc = "cleaned" /\ ~db[SummaryTable].present)
    /\ db' = CreateTable(db, SummaryTable, Header(CleanColumns))
    /\ pc' = "created"
    /\ UNCHANGED <<env, server_up, files, raw_script, raw_pc, raw_todo, raw_file, df, err,
                   attempts, before>>

\* ingest_db: INSERT of the cleaned frame; the script ends normally.
IngestDbInsertRows ==
    /\ pc = "created"
    /\ Encodable(df, CleanFloatColumns)
    /\ db' = InsertRows(db, SummaryTable, df)
    /\ pc' = "done"
    /\ UNCHANGED <<env, server_up, files, raw_script, raw_pc, raw_todo, raw_file, df, err,
                   attempts, before>>

\* ingest_db: the frame holds inf or -inf, to_sql raises ValueError("inf
\* cannot be used with MySQL"); nothing catches it, the script ends and the
\* table stays as CREATE TABLE left it.
IngestDbInsertFails ==
    /\ pc = "created"
    /\ ~Encodable(df, CleanFloatColumns)
    /\ err' = "ValueError: inf cannot be used with MySQL"
    /\ pc' = "failed"
    /\ UNCHANGED <<env, server_up, files, raw_script, db, raw_pc, raw_todo, raw_file, df,
                   attempts, before>>

(***************************************************************************)
(* Inputs                                                                  *)
(***************************************************************************)
VendorBrands == {<<101, 1>>, <<102, 1>>}

\* "ACE" and "BZ", "Gin" and "Rum".
TrimmedVendorNameOf(v) == IF v = 101 THEN <<65, 67, 69>> ELSE <<66, 90>>

TrimmedDescriptionOf(b) == IF b = 1 THEN <<71, 105, 110>> ELSE <<82, 117, 109>>

\* The names as the files hold them: "ACE" TAB and LF SPACE "BZ".
VendorNameOf(v) ==
    IF v = 101 THEN TrimmedVendorNameOf(v) \o <<9>>
    ELSE <<10, 32>> \o TrimmedVendorNameOf(v)

\* SPACE "Gin" NBSP, and "Rum".
DescriptionOf(b) ==
    IF b = 1 THEN <<32>> \o TrimmedDescriptionOf(b) \o <<160>>
    ELSE TrimmedDescriptionOf(b)

\* The Volume texts "750", "187.5", "50" and "Unknown".
Volume750 == <<55, 53, 48>>

Volume187 == <<49, 56, 55, 46, 53>>

Volume50 == <<53, 48>>

VolumeUnknown == <<85, 110, 107, 110, 111, 119, 110>>

\* "1e400", more than a double holds.
VolumeHuge == <<49, 101, 52, 48, 48>>

\* The floats 750.0, 187.5 and 50.0 of the first three.
VolumeValueOf(x) ==
    CASE x = Str(Volume750) -> F(750) [] x = Str(Volume187) -> Fin(375, 2)
      [] x = Str(Volume50) -> F(50) [] OTHER -> FloatError

PurchaseRow(v, b, price, qty, dollars) ==
    [VendorNumber |-> v, VendorName |-> Str(VendorNameOf(v)), Brand |-> b,
     Description |-> Str(DescriptionOf(b)), PurchasePrice |-> price, Quantity |-> qty,
     Dollars |-> dollars]

\* <<PurchasePrice, Quantity, Dollars>>: a free sample, a line at each of two
\* prices, the second a credit (negative Dollars), and at that price an
\* empty line whose Dollars cell is empty too (NULL).
PurchaseLines == {<<0, 5, F(0)>>, <<10, 5, F(50)>>, <<20, 1, F(-20)>>, <<20, 0, NaN>>}

\* A purchase row whose VendorName and Description cells are empty (NULL).
UnnamedRow ==
    [PurchaseRow(102, 2, 10, 5, F(50)) EXCEPT !.VendorName = NaN, !.Description = NaN]

PurchaseRows ==
    {PurchaseRow(k[1], k[2], l[1], l[2], l[3]) : k \in VendorBrands, l \in PurchaseLines}
        \cup {UnnamedRow}

PriceRows ==
    {[Brand |-> 1, Price |-> 12, Volume |-> Str(Volume750)],
     [Brand |-> 1, Price |-> 15, Volume |-> Str(Volume187)],
     [Brand |-> 2, Price |-> 12, Volume |-> Str(Volume50)],
     [Brand |-> 2, Price |-> 15, Volume |-> Str(VolumeUnknown)]}

SalesRows ==
    {[VendorNo |-> k[1], Brand |-> k[2], SalesQuantity |-> 8, SalesDollars |-> 200,
      SalesPrice |-> 25, ExciseTax |-> 5] : k \in VendorBrands}

FreightRows == {[VendorNumber |-> v, Freight |-> 20] : v \in {101, 102}}

PurchaseRank(r) ==
    ((r.VendorNumber * 10 + r.Brand) * 100 + r.PurchasePrice) * 100 + r.Quantity

PriceRank(r) == r.Brand * 100 + r.Price

SalesRank(r) == r.VendorNo * 10 + r.Brand

FreightRank(r) == r.VendorNumber

\* The order of the rows of a base relation does not enter the query, so one
\* order is taken for each multiset of n rows.
PurchaseTables(n) ==
    {s \in [1..n -> PurchaseRows] :
        \A i \in 1..(n - 1) : PurchaseRank(s[i]) <= PurchaseRank(s[i + 1])}

PriceTables(n) ==
    {s \in [1..n -> PriceRows] : \A i \in 1..(n - 1) : PriceRank(s[i]) <= PriceRank(s[i + 1])}

SalesTables(n) ==
    {s \in [1..n -> SalesRows] : \A i \in 1..(n - 1) : SalesRank(s[i]) <= SalesRank(s[i + 1])}

FreightTables(n) ==
    {s \in [1..n -> FreightRows] :
        \A i \in 1..(n - 1) : FreightRank(s[i]) <= FreightRank(s[i + 1])}

\* The row counts <<purchases, purchase_prices, sales, vendor_invoice>> of a
\* database of at most MaxRows rows.
RowCounts ==
    {n \in (0..MaxRows) \X (0..MaxRows) \X (0..MaxRows) \X (0..MaxRows) :
        n[1] + n[2] + n[3] + n[4] <= MaxRows}

CsvFile(t) == [stem |-> t, ext |-> ".csv"]

\* No entry: the loop variable before the first iteration.
NoFile == [stem |-> "", ext |-> ""]

\* data/raw holding the four CSV files with the given rows, their header
\* lines spelled as the query spells the columns.
RawDir(p, pp, s, vi) ==
    [f \in {CsvFile(t) : t \in BaseTables} |->
        CASE f.stem = "purchases" -> Relation(Header(RequiredColumns("purchases")), p)
          [] f.stem = "purchase_prices" ->
                Relation(Header(RequiredColumns("purchase_prices")), pp)
          [] f.stem = "sales" -> Relation(Header(RequiredColumns("sales")), s)
          [] f.stem = "vendor_invoice" ->
                Relation(Header(RequiredColumns("vendor_invoice")), vi)]

\* The database once scripts/ingest.py has loaded every file of the directory.
Loaded(dir) ==
    [t \in Tables |-> IF CsvFile(t) \in DOMAIN dir THEN dir[CsvFile(t)] ELSE Absent]

(***************************************************************************)
(* Spec: the pipeline, run any number of times, over a database the raw     *)
(* ingestion has loaded, the parameters all set and the server up.  The    *)
(* run ends in clean_data when a Volume is no float literal or a text       *)
(* column holds no text, and in the write when the cleaned frame holds inf  *)
(* or -inf.                                                                *)
(***************************************************************************)
Init ==
    /\ env = Params
    /\ server_up = TRUE
    /\ \E n \in RowCounts :
          \E p \in PurchaseTables(n[1]), pp \in PriceTables(n[2]),
             s \in SalesTables(n[3]), vi \in FreightTables(n[4]) :
              files = RawDir(p, pp, s, vi)
    /\ db = Loaded(files)
    /\ raw_script = "scripts/ingest.py"
    /\ raw_pc = "done"
    /\ raw_todo = {}
    /\ raw_file = NoFile
    /\ pc = "idle"
    /\ df = <<>>
    /\ err = "none"
    /\ attempts = 0
    /\ before = Absent

Next ==
    \/ Startup
    \/ CreateVendorSummary
    \/ CleanData
    \/ CleanDataFails
    \/ IngestDbDropTable
    \/ IngestDbCreateTable
    \/ IngestDbInsertRows
    \/ IngestDbInsertFails

Spec == Init /\ [][Next]_vars

(***************************************************************************)
(* SpecOps: both scripts from a fresh database, each started any number of  *)
(* times and the two interleaved statement by statement, with any set of    *)
(* parameters set, the server up or down, and a data/raw that may lack a    *)
(* file or hold one that is empty, without a join key, without a vendor     *)
(* name, or with a Volume that is no number or too large a one.  The       *)
(* header line of sales.csv is in lower case.                              *)
(***************************************************************************)
NotesFile == [stem |-> "README", ext |-> ".md"]

GoodDir ==
    [RawDir(<<PurchaseRow(101, 1, 10, 5, F(50)), PurchaseRow(101, 1, 20, 5, F(100))>>,
            <<[Brand |-> 1, Price |-> 12, Volume |-> Str(Volume750)]>>,
            <<[VendorNo |-> 101, Brand |-> 1, SalesQuantity |-> 8, SalesDollars |-> 200,
               SalesPrice |-> 25, ExciseTax |-> 5]>>,
            <<[VendorNumber |-> 101, Freight |-> 20]>>)
        EXCEPT ![CsvFile("sales")].columns = {LowerText(h) : h \in @}]
        @@ (NotesFile :> Absent)

\* purchase_prices.csv without its Brand column.
NoJoinKeyDir ==
    [GoodDir EXCEPT ![CsvFile("purchase_prices")] =
        Relation(Header({"Price", "Volume"}), <<[Price |-> 12, Volume |-> Str(Volume750)]>>)]

\* No sales.csv.
NoSalesDir == [f \in (DOMAIN GoodDir) \ {CsvFile("sales")} |-> GoodDir[f]]

\* An empty vendor_invoice.csv: no header line, no rows.
EmptyFileDir == [GoodDir EXCEPT ![CsvFile("vendor_invoice")] = Relation({}, <<>>)]

\* purchase_prices.csv with the Volume "Unknown".
BadVolumeDir ==
    [GoodDir EXCEPT ![CsvFile("purchase_prices")].rows =
        <<[Brand |-> 1, Price |-> 12, Volume |-> Str(VolumeUnknown)]>>]

\* purchase_prices.csv with the Volume "1e400".
HugeVolumeDir ==
    [GoodDir EXCEPT ![CsvFile("purchase_prices")].rows =
        <<[Brand |-> 1, Price |-> 12, Volume |-> Str(VolumeHuge)]>>]

\* purchases.csv with every VendorName cell empty.
NoNamesDir ==
    [GoodDir EXCEPT ![CsvFile("purchases")].rows =
        <<[PurchaseRow(101, 1, 10, 5, F(50)) EXCEPT !.VendorName = NaN]>>]

OpsDirs ==
    {GoodDir, NoJoinKeyDir, NoSalesDir, EmptyFileDir, BadVolumeDir, HugeVolumeDir,
     NoNamesDir}

\* A vendor_sales_summary left by an earlier run over other data.
StaleSummary ==
    LET old == Loaded(RawDir(<<PurchaseRow(101, 2, 10, 0, F(0))>>,
                             <<[Brand |-> 2, Price |-> 12, Volume |-> Str(Volume50)]>>,
                             <<>>, <<>>))
    IN  Relation(Header(CleanColumns), clean_data(CHOOSE f \in ReadSqlQuery(old) : TRUE))

InitOps ==
    /\ env \in SUBSET Params
    /\ server_up \in BOOLEAN
    /\ files \in OpsDirs
    /\ db \in {[t \in Tables |-> IF t = SummaryTable THEN prior ELSE Absent] :
                  prior \in {Absent, StaleSummary}}
    /\ raw_script = "scripts/ingest.py"
    /\ raw_pc = "idle"
    /\ raw_todo = {}
    /\ raw_file = NoFile
    /\ pc = "idle"
    /\ df = <<>>
    /\ err = "none"
    /\ attempts = 0
    /\ before = Absent

NextOps ==
    \/ RawStartup
    \/ RawConfigError
    \/ LegacyStartup
    \/ RawSkipFile
    \/ RawReadCsv
    \/ RawReadCsvFails
    \/ RawToSqlFails
    \/ RawDropTable
    \/ RawCreateTable
    \/ RawInsertRows
    \/ RawFinish
    \/ Startup
    \/ CreateVendorSummary
    \/ CreateVendorSummaryFails
    \/ CleanData
    \/ CleanDataFails
    \/ IngestDbDropTable
    \/ IngestDbCreateTable
    \/ IngestDbInsertRows
    \/ IngestDbInsertFails

SpecOps == InitOps /\ [][NextOps]_vars

(***************************************************************************)
(* Properties                                                              *)
(***************************************************************************)
P == db["purchases"].rows

PP == db["purchase_prices"].rows

S == db["sales"].rows

VI == db["vendor_invoice"].rows

\* The PurchaseSummary of the current base relations.
PS == PurchaseSummary(P, PP)

\* The run holds the cleaned frame: clean_data has returned, and the write is
\* to come, under way, over, or has failed.
Cleaned ==
    \/ pc \in {"cleaned", "dropped", "created", "done"}
    \/ pc = "failed" /\ err = "ValueError: inf cannot be used with MySQL"

\* The run holds the query's rows, cleaned or not.
Produced == pc = "queried" \/ Cleaned

\* The summary rows the run has put out: the table once the write is over,
\* the frame before that.
Out == IF pc = "done" THEN db[SummaryTable].rows ELSE df

\* The errors the query can end with.
QueryErrors == {"OperationalError", "ProgrammingError"}

SamePair(a, b) == a.VendorNumber = b.VendorNumber /\ a.Brand = b.Brand

SameGroup(a, b) ==
    /\ SamePair(a, b)
    /\ a.VendorName = b.VendorName
    /\ a.Description = b.Description
    /\ a.PurchasePrice = b.PurchasePrice
    /\ a.ActualPrice = b.ActualPrice
    /\ a.Volume = b.Volume

HasSales(r) == \E i \in DOMAIN S : S[i].VendorNo = r.VendorNumber /\ S[i].Brand = r.Brand

HasFreight(r) == \E i \in DOMAIN VI : VI[i].VendorNumber = r.VendorNumber

NonFinite(x) == x.kind \in {"inf", "-inf", "nan"}

\* C1 as stated: once the query has run, every (vendor id, brand) pair of
\* PurchaseSummary is in exactly one of its rows, and in exactly one row of
\* the result.
C1_PairOnce ==
    pc = "queried" =>
        /\ LET ps == PS IN \A r \in ps : Cardinality({q \in ps : SamePair(q, r)}) = 1
        /\ \A i \in DOMAIN df : Cardinality({j \in DOMAIN df : SamePair(df[j], df[i])}) = 1

\* C1 amended: every combination of the seven grouping columns that a
\* purchase row with PurchasePrice > 0 forms with a price row of its brand is
\* in exactly one row of PurchaseSummary and of the result, and every row
\* comes from such a combination.
C1_GroupOnce ==
    pc = "queried" =>
        LET ps == PS
            joined == PurchaseJoined(P, PP)
        IN  /\ \A x \in joined :
                  LET k == PurchaseGroupKey(P[x[1]], PP[x[2]])
                  IN  /\ Cardinality({q \in ps : SameGroup(q, k)}) = 1
                      /\ Cardinality({j \in DOMAIN df : SameGroup(df[j], k)}) = 1
            /\ \A j \in DOMAIN df :
                  \E x \in joined : SameGroup(df[j], PurchaseGroupKey(P[x[1]], PP[x[2]]))

\* The query has run over a pair bought at two purchase prices: two rows for
\* the pair, one per group.
C1_Witness ==
    /\ pc = "queried"
    /\ \E i, j \in DOMAIN df :
          i # j /\ SamePair(df[i], df[j]) /\ df[i].PurchasePrice # df[j].PurchasePrice

\* C2 as stated: each total of a result row is the sum over the purchase rows
\* with PurchasePrice > 0 of that row's group, each counted once.
C2_TotalsCountEachRowOnce ==
    pc = "queried" =>
        \A j \in DOMAIN df :
            LET G == {i \in DOMAIN P :
                        /\ P[i].PurchasePrice > 0
                        /\ SamePair(P[i], df[j])
                        /\ P[i].VendorName = df[j].VendorName
                        /\ P[i].Description = df[j].Description
                        /\ P[i].PurchasePrice = df[j].PurchasePrice}
            IN  /\ df[j].TotalPurchaseQuantity = SumFn([i \in G |-> P[i].Quantity])
                /\ df[j].TotalPurchaseDollars = SumNullable([i \in G |-> P[i].Dollars])

\* C3 as stated: the pair of a purchase row with PurchasePrice <= 0 is absent
\* from the rows the run puts out.
C3_PairAbsent ==
    Produced =>
        \A i \in DOMAIN P :
            P[i].PurchasePrice <= 0 => \A j \in DOMAIN Out : ~SamePair(Out[j], P[i])

\* C3 amended: no row the run puts out has PurchasePrice <= 0, and a pair all
\* of whose purchase rows have PurchasePrice <= 0 is absent from them.
C3_RowsFiltered ==
    Produced =>
        /\ \A j \in DOMAIN Out : Out[j].PurchasePrice > 0
        /\ \A i \in DOMAIN P :
              (\A k \in DOMAIN P : SamePair(P[k], P[i]) => P[k].PurchasePrice <= 0)
                  => \A j \in DOMAIN Out : ~SamePair(Out[j], P[i])

\* A table written from purchases holding a free line and a priced line of
\* different pairs: the priced pair is there, the free one is not.
C3_Witness ==
    /\ pc = "done"
    /\ Out # <<>>
    /\ \E i \in DOMAIN P :
          /\ P[i].PurchasePrice <= 0
          /\ \E c \in DOMAIN PP : PP[c].Brand = P[i].Brand
          /\ \A j \in DOMAIN Out : ~SamePair(Out[j], P[i])

\* Row o of the frame or table carries PurchaseSummary row r: the text,
\* the Volume and the total as the query gave them, or, once cleaned, the
\* text trimmed (nan where it was NULL), the Volume cast and a NULL total 0.
Carries(o, r) ==
    /\ SamePair(o, r)
    /\ o.PurchasePrice = r.PurchasePrice
    /\ o.ActualPrice = r.ActualPrice
    /\ o.TotalPurchaseQuantity = r.TotalPurchaseQuantity
    /\ IF pc = "queried"
       THEN /\ o.VendorName = r.VendorName /\ o.Description = r.Description
            /\ o.Volume = r.Volume
            /\ o.TotalPurchaseDollars = r.TotalPurchaseDollars
       ELSE /\ o.VendorName =
                  (IF IsStr(r.VendorName) THEN Str(TrimmedVendorNameOf(r.VendorNumber))
                   ELSE NaN)
            /\ o.Description =
                  (IF IsStr(r.Description) THEN Str(TrimmedDescriptionOf(r.Brand)) ELSE NaN)
            /\ o.Volume = VolumeValueOf(r.Volume)
            /\ o.TotalPurchaseDollars =
                  (IF r.TotalPurchaseDollars = NaN THEN F(0) ELSE r.TotalPurchaseDollars)

\* C4: the rows the query returns, those clean_data returns when it returns,
\* and those of the table a completed write leaves are as many as those of
\* PurchaseSummary, and each PurchaseSummary row is carried by exactly one of
\* them.
C4_Cardinality ==
    Produced =>
        LET ps == PS
            out == Out
        IN  /\ Len(out) = Cardinality(ps)
            /\ \A r \in ps : Cardinality({j \in DOMAIN out : Carries(out[j], r)}) = 1

\* A written table of two rows, one with sales and one without, the vendor's
\* name trimmed of its tab and the Volume "187.5" cast to 187.5.
C4_Witness ==
    /\ pc = "done"
    /\ Len(Out) = 2
    /\ \E i, j \in DOMAIN Out :
          /\ HasSales(Out[i]) /\ ~HasSales(Out[j])
          /\ Out[i].VendorNumber = 101 /\ Out[i].VendorName = Str(<<65, 67, 69>>)
          /\ Out[i].Volume = Fin(375, 2)

\* C5 as stated: the table a completed run leaves is in non-increasing order
\* of TotalPurchaseDollars: for adjacent rows i and i+1,
\* row[i].TotalPurchaseDollars >= row[i+1].TotalPurchaseDollars.
C5_SortedDescending ==
    pc = "done" =>
        LET rows == db[SummaryTable].rows
        IN  \A i \in 1..(Len(rows) - 1) :
                FLeq(rows[i + 1].TotalPurchaseDollars, rows[i].TotalPurchaseDollars)

\* C6 as stated: a run that ends over the base relations of the run before it
\* leaves the table that run left (under Spec the base relations never
\* change, and the table exists at the start only if an earlier run wrote it).
C6_Idempotent == (pc = "done" /\ before.present) => db[SummaryTable] = before

\* C7 as stated: in the cleaned frame, and in the table a completed write
\* leaves, no column taken from the query is null; a row without sales has
\* the four sales totals 0, a row whose vendor has no invoice has FreightCost
\* 0, and every PurchaseSummary row without sales is there.
C7_NullsFilled ==
    Cleaned =>
        LET out == Out
        IN  /\ \A j \in DOMAIN out :
                  /\ \A c \in SelectColumns \ IntegerColumns : out[j][c].kind # "nan"
                  /\ ~HasSales(out[j]) =>
                        /\ out[j].TotalSalesQuantity = F(0)
                        /\ out[j].TotalSalesDollars = F(0)
                        /\ out[j].TotalSalesPrice = F(0)
                        /\ out[j].TotalExciseTax = F(0)
                  /\ ~HasFreight(out[j]) => out[j].FreightCost = F(0)
            /\ \A r \in PS : ~HasSales(r) => \E j \in DOMAIN out : Carries(out[j], r)

ZeroDenominatorsPropagate(o) ==
    /\ o.TotalSalesDollars = F(0) => NonFinite(o.ProfitMargin)
    /\ o.TotalPurchaseQuantity = 0 => NonFinite(o.StockTurnover)
    /\ o.TotalPurchaseDollars = F(0) => NonFinite(o.SalesToPurchaseRatio)

\* C8 as stated: in the frame clean_data returns a zero denominator gives inf
\* or nan and the row stays, and every row without sales has ProfitMargin nan
\* and StockTurnover 0.
C8_NoSalesIndeterminate ==
    Cleaned =>
        /\ Len(df) = Cardinality(PS)
        /\ \A j \in DOMAIN df :
              /\ ZeroDenominatorsPropagate(df[j])
              /\ ~HasSales(df[j]) =>
                    df[j].ProfitMargin = NaN /\ df[j].StockTurnover = F(0)

\* C8 amended: in the frame clean_data returns a zero denominator gives inf or
\* nan and the row stays; a row without sales has ProfitMargin -inf when
\* TotalPurchaseDollars > 0 (+inf when < 0) and nan only when it is 0, and
\* StockTurnover 0 when TotalPurchaseQuantity is not 0 and nan when it is.
C8_ZeroDenominators ==
    Cleaned =>
        /\ Len(df) = Cardinality(PS)
        /\ \A j \in DOMAIN df :
              /\ ZeroDenominatorsPropagate(df[j])
              /\ ~HasSales(df[j]) =>
                    /\ df[j].ProfitMargin =
                          (IF FLess(F(0), df[j].TotalPurchaseDollars) THEN NegInf
                           ELSE IF FLess(df[j].TotalPurchaseDollars, F(0)) THEN Inf
                           ELSE NaN)
                    /\ df[j].StockTurnover =
                          (IF df[j].TotalPurchaseQuantity = 0 THEN NaN ELSE F(0))

\* A cleaned frame with a row without sales bought for money, and a row
\* without sales whose purchase totals are 0.
C8_Witness ==
    /\ pc = "cleaned"
    /\ \E j \in DOMAIN df : ~HasSales(df[j]) /\ df[j].ProfitMargin = NegInf
    /\ \E j \in DOMAIN df : ~HasSales(df[j]) /\ df[j].StockTurnover = NaN

\* C9: a run whose query raised has ended there after its one attempt, holds
\* no frame, and the table is as the run found it.
C9_FailsOutright ==
    err \in QueryErrors =>
        /\ pc = "failed"
        /\ attempts = 1
        /\ df = <<>>
        /\ db[SummaryTable] = before

\* A run over a database that lacks a relation, the parameters all set and
\* the server up, has failed and the earlier table is still there.
C9_Witness ==
    /\ pc = "failed"
    /\ err = "ProgrammingError"
    /\ ~QueryExecutes(db)
    /\ before = StaleSummary
    /\ db[SummaryTable] = StaleSummary

\* C10 as stated: with a parameter missing, scripts/ingest.py and the
\* vendor-summary script, once past their start-up, have failed with a
\* configuration error before any statement was attempted, and no table has
\* been replaced.
C10_ConfigurationError ==
    ~AllSet(env) =>
        /\ raw_script = "scripts/ingest.py" => raw_pc \in {"idle", "ValueError"}
        /\ pc \notin {"idle", "main"} =>
              (pc = "failed" /\ err = "ValueError" /\ attempts = 0)
        /\ \A t \in BaseTables : ~db[t].present

====
